---- MODULE Spec2Model ----
(***************************************************************************)
(* memo: a note store whose notes are text files with a YAML front matter. *)
(*                                                                         *)
(* Text is a sequence of symbols.  A symbol is a one-character string, or  *)
(* one of the YAML tokens the front matter is made of ("title: ",          *)
(* "tags:", "    - ", ...).  The delimiter "---" and the newline are       *)
(* characters, so that strings.Split's search for "\n---\n" sees them      *)
(* wherever they stand.  Timestamps are clock ticks, written in decimal.   *)
(***************************************************************************)
EXTENDS Naturals, Sequences, FiniteSets, TLC

\* files: the notes directory; now: the clock; currentListing: the package
\* variable of cmd in the running process; lastListed: the note ids of the
\* last listing printed on the terminal; out: the command of the running
\* process, what it was given and what it returned
VARIABLES files, notesDir, now, currentListing, lastListed, out

vars == <<files, notesDir, now, currentListing, lastListed, out>>

-----------------------------------------------------------------------------
(* Bounds of the model *)

\* the clock runs from 1 to MaxNow ticks
MaxNow == 3
\* at most this many lines in the metadata block of a hand-written file
MaxYamlLines == 3

\* ticks per clock second: time.Now().Unix() drops the sub-second part
TicksPerSecond == 2

\* the longest text of a note file, in symbols
MaxWritten == 40

-----------------------------------------------------------------------------
(* strings *)

NL == "\n"
Dash == "-"
Space == " "
Quote == "'"
Escape == "\\"

Digit == <<"0", "1", "2", "3", "4", "5", "6", "7", "8", "9">>
DigitChars == {Digit[i] : i \in 1..10}

WhiteSpace == {Space, NL}

\* strings.ToLower, on the letters of the model
ToLowerChar(c) ==
    CASE c = "W" -> "w"
      [] c = "S" -> "s"
      [] c = "Y" -> "y"
      [] c = "E" -> "e"
      [] OTHER -> c

ToLower(s) == [i \in 1..Len(s) |-> ToLowerChar(s[i])]

RECURSIVE Concat(_)
Concat(ss) == IF ss = <<>> THEN <<>> ELSE Head(ss) \o Concat(Tail(ss))

HasPrefix(s, prefix) ==
    /\ Len(s) >= Len(prefix)
    /\ SubSeq(s, 1, Len(prefix)) = prefix

\* strings.Index, 1-based; 0 when sep does not occur in s
Index(s, sep) ==
    LET hits == {i \in 1..(Len(s) + 1) :
                    /\ i + Len(sep) - 1 <= Len(s)
                    /\ SubSeq(s, i, i + Len(sep) - 1) = sep}
    IN  IF hits = {} THEN 0 ELSE CHOOSE i \in hits : \A j \in hits : i <= j

Contains(s, substr) == Index(s, substr) # 0

\* strings.Split for a non-empty separator: leftmost, non-overlapping
RECURSIVE Split(_, _)
Split(s, sep) ==
    LET i == Index(s, sep)
    IN  IF i = 0
        THEN <<s>>
        ELSE <<SubSeq(s, 1, i - 1)>> \o Split(SubSeq(s, i + Len(sep), Len(s)), sep)

RECURSIVE Join(_, _)
Join(parts, sep) ==
    IF parts = <<>> THEN <<>>
    ELSE IF Len(parts) = 1 THEN parts[1]
    ELSE parts[1] \o sep \o Join(Tail(parts), sep)

RECURSIVE TrimLeft(_)
TrimLeft(s) ==
    IF s # <<>> /\ Head(s) \in WhiteSpace THEN TrimLeft(Tail(s)) ELSE s

RECURSIVE TrimRight(_)
TrimRight(s) ==
    IF s # <<>> /\ s[Len(s)] \in WhiteSpace
    THEN TrimRight(SubSeq(s, 1, Len(s) - 1))
    ELSE s

TrimSpace(s) == TrimRight(TrimLeft(s))

\* strconv: a number in decimal, and back
RECURSIVE Itoa(_)
Itoa(n) == IF n < 10 THEN <<Digit[n + 1]>> ELSE Itoa(n \div 10) \o <<Digit[(n % 10) + 1]>>

IsDigits(s) == s # <<>> /\ \A i \in 1..Len(s) : s[i] \in DigitChars

DigitValue(c) == (CHOOSE i \in 1..10 : Digit[i] = c) - 1

RECURSIVE Atoi(_)
Atoi(s) ==
    IF Len(s) = 1 THEN DigitValue(s[1])
    ELSE 10 * Atoi(SubSeq(s, 1, Len(s) - 1)) + DigitValue(s[Len(s)])

-----------------------------------------------------------------------------
(* note.Metadata, note.Note *)

\* the zero time.Time, older than every tick of the clock
ZeroTime == 0

ZeroMetadata ==
    [Title |-> <<>>, Created |-> ZeroTime, Modified |-> ZeroTime, Tags |-> <<>>,
     Author |-> <<>>, Status |-> <<>>, Priority |-> 0]

\* note.New
New(title, content, tags, t) ==
    [Metadata |-> [ZeroMetadata EXCEPT !.Title = title, !.Created = t,
                                       !.Modified = t, !.Tags = tags],
     Content  |-> content,
     FilePath |-> 0]

SetFilePath(n, path) == [n EXCEPT !.FilePath = path]

\* UpdateContent stamping created as well as modified
UpdateContent_Recreate(n, content, t) ==
    [n EXCEPT !.Content = content, !.Metadata.Modified = t, !.Metadata.Created = t]

UpdateContent(n, content, t) ==
    [n EXCEPT !.Content = content, !.Metadata.Modified = t]

\* UpdateTags clearing the author of the note
UpdateTags_Anonymous(n, tags, t) ==
    [n EXCEPT !.Metadata.Tags = tags, !.Metadata.Modified = t, !.Metadata.Author = <<>>]

UpdateTags(n, tags, t) ==
    [n EXCEPT !.Metadata.Tags = tags, !.Metadata.Modified = t]

-----------------------------------------------------------------------------
(* gopkg.in/yaml.v3, for the fragment of YAML the Metadata struct uses: a   *)
(* block mapping of one key per line, its values plain or quoted scalars,  *)
(* and tags a block sequence of one item per line.                         *)

TitleKey == "title: "
CreatedKey == "created: "
ModifiedKey == "modified: "
TagsKey == "tags:"
AuthorKey == "author: "
StatusKey == "status: "
PriorityKey == "priority: "
\* a key the Metadata struct has no field for
OtherKey == "foo: "
ItemTok == "    - "

YamlKeys == {TitleKey, CreatedKey, ModifiedKey, TagsKey, AuthorKey, StatusKey,
             PriorityKey, OtherKey}

\* a string the emitter cannot write as a plain scalar
NeedsQuoting(s) ==
    \/ s = <<>>
    \/ Head(s) \in {Space, Dash, Quote}
    \/ s[Len(s)] = Space
    \/ IsDigits(s)
    \/ \E i \in 1..Len(s) : s[i] \in {NL, Escape}

RECURSIVE EscapeChars(_)
EscapeChars(s) ==
    IF s = <<>> THEN <<>>
    ELSE (CASE Head(s) = NL     -> <<Escape, "n">>
            [] Head(s) = Escape -> <<Escape, Escape>>
            [] Head(s) = Quote  -> <<Escape, Quote>>
            [] OTHER            -> <<Head(s)>>) \o EscapeChars(Tail(s))

EmitString(s) ==
    IF NeedsQuoting(s) THEN <<Quote>> \o EscapeChars(s) \o <<Quote>> ELSE s

\* the inside of a quoted scalar; ok is FALSE on a bad escape or a stray quote
RECURSIVE UnescapeChars(_)
UnescapeChars(s) ==
    IF s = <<>> THEN [ok |-> TRUE, val |-> <<>>]
    ELSE IF Head(s) = Quote THEN [ok |-> FALSE, val |-> <<>>]
    ELSE IF Head(s) = Escape
    THEN IF Len(s) < 2 \/ s[2] \notin {"n", Escape, Quote}
         THEN [ok |-> FALSE, val |-> <<>>]
         ELSE LET rest == UnescapeChars(SubSeq(s, 3, Len(s)))
                  c == IF s[2] = "n" THEN NL ELSE s[2]
              IN  [ok |-> rest.ok, val |-> <<c>> \o rest.val]
    ELSE LET rest == UnescapeChars(Tail(s))
         IN  [ok |-> rest.ok, val |-> <<Head(s)>> \o rest.val]

RECURSIVE TrimSpaces(_)
TrimSpaces(s) ==
    IF s # <<>> /\ Head(s) = Space THEN TrimSpaces(Tail(s))
    ELSE IF s # <<>> /\ s[Len(s)] = Space THEN TrimSpaces(SubSeq(s, 1, Len(s) - 1))
    ELSE s

\* a scalar read as a string
ParseString(v) ==
    LET w == TrimSpaces(v)
    IN  IF w # <<>> /\ Head(w) = Quote
        THEN IF Len(w) < 2 \/ w[Len(w)] # Quote
             THEN [ok |-> FALSE, val |-> <<>>]
             ELSE UnescapeChars(SubSeq(w, 2, Len(w) - 1))
        ELSE [ok |-> TRUE, val |-> w]

\* a scalar read as a time.Time: null leaves the zero time
ParseTime(v) ==
    LET w == TrimSpaces(v)
    IN  IF w = <<>> THEN [ok |-> TRUE, val |-> ZeroTime]
        ELSE IF IsDigits(w) THEN [ok |-> TRUE, val |-> Atoi(w)]
        ELSE [ok |-> FALSE, val |-> ZeroTime]

\* a scalar read as an int
ParseInt(v) ==
    LET w == TrimSpaces(v)
    IN  IF w = <<>> THEN [ok |-> TRUE, val |-> 0]
        ELSE IF IsDigits(w) THEN [ok |-> TRUE, val |-> Atoi(w)]
        ELSE [ok |-> FALSE, val |-> 0]

RECURSIVE EmitTags(_)
EmitTags(tags) ==
    IF tags = <<>> THEN <<>>
    ELSE <<ItemTok>> \o EmitString(Head(tags)) \o <<NL>> \o EmitTags(Tail(tags))

\* yaml.Marshal(&n.Metadata): the fields in the struct's order, the
\* omitempty ones only when they hold something
Marshal(md) ==
    Concat(<<
        <<TitleKey>> \o EmitString(md.Title) \o <<NL>>,
        <<CreatedKey>> \o Itoa(md.Created) \o <<NL>>,
        <<ModifiedKey>> \o Itoa(md.Modified) \o <<NL>>,
        IF md.Tags = <<>> THEN <<>> ELSE <<TagsKey, NL>> \o EmitTags(md.Tags),
        IF md.Author = <<>> THEN <<>> ELSE <<AuthorKey>> \o EmitString(md.Author) \o <<NL>>,
        IF md.Status = <<>> THEN <<>> ELSE <<StatusKey>> \o EmitString(md.Status) \o <<NL>>,
        IF md.Priority = 0 THEN <<>> ELSE <<PriorityKey>> \o Itoa(md.Priority) \o <<NL>>
    >>)

YamlError == [ok |-> FALSE, md |-> ZeroMetadata]

Reject(acc) == [acc EXCEPT !.ok = FALSE]

\* a decoded scalar stored in its field, or the type error
SetTitle(acc, str) == IF str.ok THEN [acc EXCEPT !.md.Title = str.val] ELSE Reject(acc)
SetAuthor(acc, str) == IF str.ok THEN [acc EXCEPT !.md.Author = str.val] ELSE Reject(acc)
SetStatus(acc, str) == IF str.ok THEN [acc EXCEPT !.md.Status = str.val] ELSE Reject(acc)
SetCreated(acc, time) == IF time.ok THEN [acc EXCEPT !.md.Created = time.val] ELSE Reject(acc)
SetModified(acc, time) == IF time.ok THEN [acc EXCEPT !.md.Modified = time.val] ELSE Reject(acc)
SetPriority(acc, int) == IF int.ok THEN [acc EXCEPT !.md.Priority = int.val] ELSE Reject(acc)
AddTag(acc, item) ==
    IF acc.inTags /\ item.ok THEN [acc EXCEPT !.md.Tags = Append(@, item.val)]
    ELSE Reject(acc)
\* a key without a field is read and dropped
SkipValue(acc, str) == IF str.ok THEN acc ELSE Reject(acc)

\* the entry key: v of the mapping
UnmarshalEntry(key, v, acc) ==
    CASE key = TitleKey    -> SetTitle(acc, ParseString(v))
      [] key = AuthorKey   -> SetAuthor(acc, ParseString(v))
      [] key = StatusKey   -> SetStatus(acc, ParseString(v))
      [] key = CreatedKey  -> SetCreated(acc, ParseTime(v))
      [] key = ModifiedKey -> SetModified(acc, ParseTime(v))
      [] key = PriorityKey -> SetPriority(acc, ParseInt(v))
      [] key = TagsKey     -> IF TrimSpaces(v) = <<>> THEN acc ELSE Reject(acc)
      [] OTHER             -> SkipValue(acc, ParseString(v))

\* one line of the mapping, read into the metadata so far: a blank line, an
\* item of tags, or an entry whose key was not seen before
UnmarshalLine(line, acc) ==
    IF TrimSpaces(line) = <<>> THEN acc
    ELSE IF Head(line) = ItemTok THEN AddTag(acc, ParseString(Tail(line)))
    ELSE IF Head(line) \notin YamlKeys \/ Head(line) \in acc.seen THEN Reject(acc)
    ELSE UnmarshalEntry(Head(line), Tail(line),
                        [acc EXCEPT !.seen = @ \cup {Head(line)},
                                    !.inTags = (Head(line) = TagsKey)])

RECURSIVE UnmarshalLines(_, _)
UnmarshalLines(lines, acc) ==
    IF lines = <<>> \/ ~acc.ok THEN acc
    ELSE UnmarshalLines(Tail(lines), UnmarshalLine(Head(lines), acc))

UnmarshalResult(acc) == IF acc.ok THEN [ok |-> TRUE, md |-> acc.md] ELSE YamlError

\* yaml.Unmarshal(yamlContent, &metadata): keys the document lacks leave
\* the zero value; no key is required
Unmarshal(yamlContent) ==
    UnmarshalResult(UnmarshalLines(Split(yamlContent, <<NL>>),
                                   [ok |-> TRUE, md |-> ZeroMetadata, seen |-> {},
                                    inTags |-> FALSE]))

-----------------------------------------------------------------------------
(* the front matter codec *)

Delimiter == <<Dash, Dash, Dash>>
OpenDelimiter == Delimiter \o <<NL>>
SplitDelimiter == <<NL>> \o Delimiter \o <<NL>>

\* Note.ToFileContent at time t: the note with Modified stamped, and its text
\* ToFileContent leaving modified as it is
Stamp_Keep(n, t) == n

\* n.Metadata.Modified = time.Now() of ToFileContent
Stamp(n, t) == [n EXCEPT !.Metadata.Modified = t]

ToFileContent(n, t) ==
    OpenDelimiter \o Marshal(Stamp(n, t).Metadata) \o OpenDelimiter \o <<NL>> \o n.Content

ErrNoFrontMatter == "note file must start with YAML front matter"
ErrNoDelimiter == "invalid note format: missing YAML front matter delimiter"
ErrYaml == "error parsing YAML metadata"
ErrNotFound == "note not found"

Failed(err) == [kind |-> "error", err |-> err]
Panicked == [kind |-> "panic"]
Parsed(n) == [kind |-> "note", note |-> n]

\* NoteOf giving every note the path of the first note file
NoteOf_Renamed(metadata, noteContent, filePath) ==
    IF ~metadata.ok THEN Failed(ErrYaml)
    ELSE Parsed([Metadata |-> metadata.md,
                 Content  |-> TrimSpace(noteContent),
                 FilePath |-> <<"note_", "0", ".note">>])

\* the note of ParseNote, or the error of yaml.Unmarshal
NoteOf(metadata, noteContent, filePath) ==
    IF ~metadata.ok THEN Failed(ErrYaml)
    ELSE Parsed([Metadata |-> metadata.md,
                 Content  |-> TrimSpace(noteContent),
                 FilePath |-> filePath])

\* ParseParts keeping only the text up to the next delimiter line as the body
ParseParts_FirstPart(parts, filePath) ==
    IF Len(parts) < 2 THEN Failed(ErrNoDelimiter)
    ELSE IF Len(parts[1]) < Len(OpenDelimiter) THEN Panicked
    ELSE NoteOf(Unmarshal(SubSeq(parts[1], Len(OpenDelimiter) + 1, Len(parts[1]))),
                parts[2], filePath)

\* ParseNote after the split: parts[0][4:] is the metadata, and is out of
\* range when parts[0] is the bare "---"; the other parts are the body
ParseParts(parts, filePath) ==
    IF Len(parts) < 2 THEN Failed(ErrNoDelimiter)
    ELSE IF Len(parts[1]) < Len(OpenDelimiter) THEN Panicked
    ELSE NoteOf(Unmarshal(SubSeq(parts[1], Len(OpenDelimiter) + 1, Len(parts[1]))),
                Join(Tail(parts), SplitDelimiter), filePath)

\* ParseNote reading a file without front matter as a note that is all body
ParseNote_Legacy(contentStr, filePath) ==
    IF ~HasPrefix(contentStr, OpenDelimiter)
    THEN Parsed([Metadata |-> ZeroMetadata, Content |-> TrimSpace(contentStr),
                 FilePath |-> filePath])
    ELSE ParseParts(Split(contentStr, SplitDelimiter), filePath)

\* FileStorage.ParseNote on the text of the file at filePath
ParseNote(contentStr, filePath) ==
    IF ~HasPrefix(contentStr, OpenDelimiter) THEN Failed(ErrNoFrontMatter)
    ELSE ParseParts(Split(contentStr, SplitDelimiter), filePath)

-----------------------------------------------------------------------------
(* storage.FileStorage: the notes directory is a function from the paths    *)
(* of its files to their text                                              *)

DefaultNoteExtension == ".note"
noteExtension == DefaultNoteExtension
NotePrefix == "note_"

\* time.Now().Unix() of tick t
Unix(t) == t \div TicksPerSecond

GenerateNoteID(t) == <<NotePrefix>> \o Itoa(Unix(t))

GenerateNoteFilePath(noteID) == noteID \o <<noteExtension>>

\* the order of filepath.Glob: by file name (ids of one width)
PathRank(path) == Atoi(SubSeq(path, 2, Len(path) - 1))

RECURSIVE SortPaths(_)
SortPaths(S) ==
    IF S = {} THEN <<>>
    ELSE LET first == CHOOSE p \in S : \A q \in S : PathRank(p) <= PathRank(q)
         IN  <<first>> \o SortPaths(S \ {first})

Glob(fs) == SortPaths(DOMAIN fs)

WriteFile(fs, path, text) ==
    [p \in DOMAIN fs \cup {path} |-> IF p = path THEN text ELSE fs[p]]

\* os.Remove taking every file of the directory with it
Remove_All(fs, path) == [p \in {} |-> fs[p]]

\* os.Remove(path)
Remove(fs, path) == [p \in DOMAIN fs \ {path} |-> fs[p]]

\* FileStorage.EnsureNotesDir: the notes directory exists afterwards, made
\* by os.MkdirAll when it did not
EnsureNotesDir(exists) == IF ~exists THEN TRUE ELSE exists

\* Note.Save behind FileStorage.SaveNote, at time t
SaveNote(fs, n, t) == WriteFile(fs, n.FilePath, ToFileContent(n, t))

\* one turn of the loop of GetAllNotes: r is ParseNote of the file at path
Loaded(acc, path, r) ==
    CASE acc.kind = "panic" \/ r.kind = "panic" -> Panicked
      [] r.kind = "error" -> [acc EXCEPT !.warnings = Append(@, path)]
      [] OTHER -> [acc EXCEPT !.notes = Append(@, r.note)]

\* the loop of GetAllNotes over the globbed files
RECURSIVE LoadFiles(_, _, _)
LoadFiles(fs, paths, acc) ==
    IF paths = <<>> \/ acc.kind = "panic" THEN acc
    ELSE LoadFiles(fs, Tail(paths),
                   Loaded(acc, Head(paths), ParseNote(fs[Head(paths)], Head(paths))))

\* FileStorage.GetAllNotes: the notes, and the files it warned about
GetAllNotes(fs) ==
    LoadFiles(fs, Glob(fs), [kind |-> "ok", notes |-> <<>>, warnings |-> <<>>])

FindNoteByID(fs, noteID) ==
    IF GenerateNoteFilePath(noteID) \notin DOMAIN fs THEN Failed(ErrNotFound)
    ELSE ParseNote(fs[GenerateNoteFilePath(noteID)], GenerateNoteFilePath(noteID))

\* the tags loop of SearchNotes finding the query in no tag
SearchTags_Skipped(n, tags, queryLower) == <<>>

\* the tags loop of SearchNotes without its break
RECURSIVE SearchTags_NoBreak(_, _, _)
SearchTags_NoBreak(n, tags, queryLower) ==
    IF tags = <<>> THEN <<>>
    ELSE (IF Contains(ToLower(Head(tags)), queryLower) THEN <<n>> ELSE <<>>)
         \o SearchTags_NoBreak(n, Tail(tags), queryLower)

\* the tags loop of SearchNotes: what it appends to matches for the note n,
\* breaking at the first tag that contains the query
RECURSIVE SearchTags(_, _, _)
SearchTags(n, tags, queryLower) ==
    IF tags = <<>> THEN <<>>
    ELSE IF Contains(ToLower(Head(tags)), queryLower) THEN <<n>>
    ELSE SearchTags(n, Tail(tags), queryLower)

\* the body of the loop of SearchNotes: what it appends to matches for n
SearchNote(n, queryLower) ==
    IF \/ Contains(ToLower(n.Metadata.Title), queryLower)
       \/ Contains(ToLower(n.Content), queryLower)
    THEN <<n>>
    ELSE SearchTags(n, n.Metadata.Tags, queryLower)

\* the loop of SearchNotes putting each match before the earlier ones
RECURSIVE SearchLoop_Reversed(_, _)
SearchLoop_Reversed(notes, queryLower) ==
    IF notes = <<>> THEN <<>>
    ELSE SearchLoop_Reversed(Tail(notes), queryLower) \o SearchNote(Head(notes), queryLower)

RECURSIVE SearchLoop(_, _)
SearchLoop(notes, queryLower) ==
    IF notes = <<>> THEN <<>>
    ELSE SearchNote(Head(notes), queryLower) \o SearchLoop(Tail(notes), queryLower)

\* the matches of a query among the notes GetAllNotes returned
Matching(all, matches) ==
    IF all.kind = "panic" THEN Panicked ELSE [all EXCEPT !.notes = matches]

SearchNotes(fs, query) ==
    Matching(GetAllNotes(fs), SearchLoop(GetAllNotes(fs).notes, ToLower(query)))

\* the tags loop of FilterNotesByTag matching a tag that contains the filter
RECURSIVE FilterTags_Substring(_, _, _)
FilterTags_Substring(n, tags, tagLower) ==
    IF tags = <<>> THEN <<>>
    ELSE IF Contains(ToLower(Head(tags)), tagLower) THEN <<n>>
    ELSE FilterTags_Substring(n, Tail(tags), tagLower)

\* the tags loop of FilterNotesByTag: what it appends to matches for the
\* note n, breaking at the first tag equal to the filter
RECURSIVE FilterTags(_, _, _)
FilterTags(n, tags, tagLower) ==
    IF tags = <<>> THEN <<>>
    ELSE IF ToLower(Head(tags)) = tagLower THEN <<n>>
    ELSE FilterTags(n, Tail(tags), tagLower)

RECURSIVE FilterLoop(_, _)
FilterLoop(notes, tagLower) ==
    IF notes = <<>> THEN <<>>
    ELSE FilterTags(Head(notes), Head(notes).Metadata.Tags, tagLower)
         \o FilterLoop(Tail(notes), tagLower)

FilterNotesByTag(fs, tag) ==
    Matching(GetAllNotes(fs), FilterLoop(GetAllNotes(fs).notes, ToLower(tag)))

-----------------------------------------------------------------------------
(* The codec on its own: texts a file can hold, and notes to encode *)

\* lines of a hand-written metadata block
YamlLines ==
    { <<TitleKey, "w">>, <<CreatedKey, "1">>, <<CreatedKey, "w">>,
      <<ModifiedKey, "2">>, <<ModifiedKey, Dash>>, <<"w">> }

RECURSIVE YamlBlocks(_)
YamlBlocks(k) ==
    IF k = 0 THEN {<<>>}
    ELSE LET shorter == YamlBlocks(k - 1)
         IN  shorter \cup {line \o <<NL>> \o b : line \in YamlLines, b \in shorter}

Openers == { OpenDelimiter, <<>>, Delimiter, <<"w", NL>> }
Closers == { OpenDelimiter, <<>>, Delimiter }
Bodies == { <<>>, <<NL, "w">> }

RawTexts ==
    { o \o b \o c \o body :
        o \in Openers, b \in YamlBlocks(MaxYamlLines), c \in Closers, body \in Bodies }

CodecTitles ==
    { <<"w">>, <<"W", "s">>, <<Space, "w">>, <<"1">>, <<Dash, Dash, Dash>>,
      <<"w", NL, Dash, Dash, Dash, NL, "s">> }
CodecContents ==
    { <<>>, <<"w">>, <<Space, "w">>, <<"w", NL>>, <<Dash, Dash, Dash, NL, "w">>,
      <<"w", NL, Dash, Dash, Dash, NL, "s">> }
CodecTags == { <<>>, << <<"w">> >>, << <<"W">>, <<"w", "s">> >>, << <<>>, <<Quote>> >> }
CodecAuthors == { <<>>, <<"s">> }
CodecPriorities == { 0, 3 }

CodecNotes ==
    { [Metadata |-> [Title |-> title, Created |-> created, Modified |-> created,
                     Tags |-> tags, Author |-> author, Status |-> author,
                     Priority |-> priority],
       Content |-> content,
       FilePath |-> GenerateNoteFilePath(GenerateNoteID(created))] :
        title \in CodecTitles, created \in 1..MaxNow, tags \in CodecTags,
        author \in CodecAuthors, priority \in CodecPriorities,
        content \in CodecContents }

Idle == [cmd |-> "none"]

\* what the codec is about to be given: the text of a file, or a note to save
CodecInputs ==
    {[cmd |-> "text", input |-> raw] : raw \in RawTexts}
    \cup {[cmd |-> "note", n |-> n, t |-> t] :
            n \in CodecNotes, t \in 1..MaxNow}

InitCodec ==
    /\ files = <<>>
    /\ notesDir = FALSE
    /\ now = 1
    /\ currentListing = <<>>
    /\ lastListed = <<>>
    /\ out \in CodecInputs
    /\ out.cmd = "note" => out.t >= out.n.Metadata.Created

\* ParseNote on a file holding the text
Decode ==
    /\ out.cmd = "text"
    /\ out' = [cmd |-> "decode", input |-> out.input,
               res |-> ParseNote(out.input, GenerateNoteFilePath(GenerateNoteID(now)))]
    /\ UNCHANGED <<files, notesDir, now, currentListing, lastListed>>

\* ToFileContent of the note at time t, and ParseNote on the text
RoundTrip ==
    /\ out.cmd = "note"
    /\ out' = [cmd |-> "roundtrip", n |-> out.n, t |-> out.t,
               res |-> ParseNote(ToFileContent(out.n, out.t), out.n.FilePath)]
    /\ UNCHANGED <<files, notesDir, now, currentListing, lastListed>>

NextCodec == Decode \/ RoundTrip

SpecCodec == InitCodec /\ [][NextCodec]_vars


-----------------------------------------------------------------------------
(* The commands.  main runs App.Run once and the process exits: a command  *)
(* starts with the package variable currentListing nil, and the notes      *)
(* directory is all that one command leaves to the next.                   *)

\* what the user types at the prompts and on the command line
TitleInputs == { <<>>, <<"w">> }
ContentInputs == { <<>>, <<"s">> }
TagInputs == { <<>>, <<"W", ",", Space, "w", "s">> }
Queries == { <<>>, <<"w">>, <<"W">>, <<"S">>, <<"w", "s">> }
Answers == { <<"y">>, <<"n">> }

\* texts that reach a note file from outside memo
GarbageTexts ==
    { <<"w">>,
      OpenDelimiter \o <<TitleKey, "w", NL>>,
      OpenDelimiter \o <<CreatedKey, "w", NL>> \o OpenDelimiter,
      OpenDelimiter \o OpenDelimiter \o <<"w">> }

Seconds == {Unix(t) : t \in 1..MaxNow}
NoteIDs == {<<NotePrefix>> \o Itoa(sec) : sec \in Seconds}
Identifiers == NoteIDs \cup {Itoa(k) : k \in 1..2}

\* currentListing when a process starts
NoListing == <<>>

\* strings.Split(tagsInput, ",") with strings.TrimSpace of each part
ParseTagsInput(tagsInput) ==
    IF tagsInput = <<>> THEN <<>>
    ELSE LET parts == Split(tagsInput, <<",">>)
         IN  [i \in 1..Len(parts) |-> TrimSpace(parts[i])]

\* a Go slice: the nil slice, or a slice with its elements
NilSlice == [nil |-> TRUE, elems |-> <<>>]

\* append(slice, x): never nil
AppendSlice(slice, x) == [nil |-> FALSE, elems |-> Append(slice.elems, x)]

RECURSIVE AppendAll(_, _)
AppendAll(slice, xs) ==
    IF xs = <<>> THEN slice ELSE AppendAll(AppendSlice(slice, Head(xs)), Tail(xs))

\* the tags of HandleCreate: var tags []string, appended to only when
\* something was typed
TagsSlice(tagsInput) ==
    IF tagsInput = <<>> THEN NilSlice
    ELSE AppendAll(NilSlice, ParseTagsInput(tagsInput))

\* the Tags of a note ParseNote returned: var metadata note.Metadata holds
\* the nil slice, and yaml.Unmarshal appends the items of the tags key
DecodedTags(res) ==
    IF res.kind = "note" THEN AppendAll(NilSlice, res.note.Metadata.Tags) ELSE NilSlice

ErrNoListing == "no current note listing. Please run 'memo list' first"
ErrOutOfRange == "number is out of range"

Separator == "/"

\* filepath.Base: what follows the last separator of the path
Base(path) ==
    IF \E i \in 1..Len(path) : path[i] = Separator
    THEN LET last == CHOOSE i \in 1..Len(path) :
                        /\ path[i] = Separator
                        /\ \A k \in (i + 1)..Len(path) : path[k] # Separator
         IN  SubSeq(path, last + 1, Len(path))
    ELSE path

TrimSuffix(s, suffix) ==
    IF Len(s) >= Len(suffix) /\ SubSeq(s, Len(s) - Len(suffix) + 1, Len(s)) = suffix
    THEN SubSeq(s, 1, Len(s) - Len(suffix))
    ELSE s

\* the id DisplayNotesWithPagination prints for a note
DisplayedID(n) == TrimSuffix(Base(n.FilePath), <<DefaultNoteExtension>>)

\* App.resolveNoteID against the listing of the process
resolveNoteID(identifier, listing) ==
    IF IsDigits(identifier)
    THEN LET num == Atoi(identifier)
         IN  IF Len(listing) = 0 THEN Failed(ErrNoListing)
             ELSE IF num < 1 \/ num > Len(listing) THEN Failed(ErrOutOfRange)
             ELSE [kind |-> "id",
                   id |-> TrimSuffix(Base(listing[num].FilePath), <<DefaultNoteExtension>>)]
    ELSE [kind |-> "id", id |-> identifier]

Init ==
    /\ files = <<>>
    /\ notesDir = FALSE
    /\ now = 1
    /\ currentListing = NoListing
    /\ lastListed = <<>>
    /\ out = Idle

\* the clock advances
Tick ==
    /\ out = Idle
    /\ now < MaxNow
    /\ now' = now + 1
    /\ UNCHANGED <<files, notesDir, currentListing, lastListed, out>>

\* a note file is written by another program
ExternalWrite ==
    /\ out = Idle
    /\ notesDir
    /\ \E noteID \in NoteIDs, text \in GarbageTexts :
          files' = WriteFile(files, GenerateNoteFilePath(noteID), text)
    /\ UNCHANGED <<notesDir, now, currentListing, lastListed, out>>

\* memo create: the clock may advance by d1 before New and by d2 before Save
HandleCreate ==
    /\ out = Idle
    /\ \E title \in TitleInputs, content \in ContentInputs, tagsInput \in TagInputs,
          d1 \in 0..1, d2 \in 0..1 :
          IF title = <<>>
          THEN /\ out' = [cmd |-> "create", ok |-> FALSE]
               /\ UNCHANGED <<files, notesDir, now>>
          ELSE LET noteID == GenerateNoteID(now)
                   path == GenerateNoteFilePath(noteID)
                   n == SetFilePath(New(title, content, ParseTagsInput(tagsInput),
                                        now + d1), path)
               IN  /\ now + d1 + d2 <= MaxNow
                   /\ notesDir' = EnsureNotesDir(notesDir)
                   /\ files' = SaveNote(files, n, now + d1 + d2)
                   /\ now' = now + d1 + d2
                   /\ out' = [cmd |-> "create", ok |-> TRUE, id |-> noteID,
                              before |-> DOMAIN files, tags |-> TagsSlice(tagsInput)]
    /\ UNCHANGED <<currentListing, lastListed>>

\* the end of HandleList: an empty result leaves currentListing alone
Listed(args, res, shown) ==
    /\ out' = [cmd |-> "list", args |-> args, res |-> res]
    /\ currentListing' = IF shown THEN res.notes ELSE currentListing
    /\ lastListed' = IF shown
                     THEN [i \in 1..Len(res.notes) |-> DisplayedID(res.notes[i])]
                     ELSE lastListed

\* the notes HandleList loads for a tag filter, "" being no filter
ListNotes(fs, tagFilter) ==
    IF tagFilter # <<>> THEN FilterNotesByTag(fs, tagFilter) ELSE GetAllNotes(fs)

\* DisplayNotesWithPagination is reached
Displays(res) == res.kind = "ok" /\ Len(res.notes) # 0

ListArgs == {<<>>, <<"--tag">>} \cup {<<"--tag", q>> : q \in Queries}

\* the tag filter HandleList reads off its arguments
TagFilter(args) == IF Len(args) >= 2 /\ args[1] = "--tag" THEN args[2] ELSE <<>>

ErrTagRequired == "tag value required"

\* ListCommand.Execute up to its display: the notes it loads, or its error
ListExecute(fs, args) ==
    IF Len(args) >= 2 /\ args[1] = "--tag" THEN ListNotes(fs, args[2])
    ELSE IF Len(args) >= 1 /\ args[1] = "--tag" THEN Failed(ErrTagRequired)
    ELSE ListNotes(fs, <<>>)

\* memo list [--tag <tag>]
HandleList ==
    /\ out = Idle
    /\ \E args \in ListArgs :
          Listed(args, ListNotes(files, TagFilter(args)),
                 Displays(ListNotes(files, TagFilter(args))))
    /\ notesDir' = EnsureNotesDir(notesDir)
    /\ UNCHANGED <<files, now>>

\* FindNoteByID of the id resolveNoteID gave, or its error
Found(fs, resolved) ==
    IF resolved.kind = "error" THEN resolved ELSE FindNoteByID(fs, resolved.id)

\* memo read <note-id|number>
HandleRead ==
    /\ out = Idle
    /\ \E identifier \in Identifiers :
          out' = [cmd |-> "read", identifier |-> identifier,
                  resolved |-> resolveNoteID(identifier, currentListing),
                  res |-> Found(files, resolveNoteID(identifier, currentListing)),
                  tags |-> DecodedTags(Found(files,
                                             resolveNoteID(identifier, currentListing)))]
    /\ UNCHANGED <<files, notesDir, now, currentListing, lastListed>>

\* the note of HandleEdit after the two prompts
Edited(n, newContent, newTags, t) ==
    LET n1 == IF newContent # <<>> THEN UpdateContent(n, newContent, t) ELSE n
    IN  IF newTags # <<>> THEN UpdateTags(n1, ParseTagsInput(newTags), t) ELSE n1

\* the end of HandleEdit: the note that was found is saved
EditFound(identifier, resolved, found, newContent, newTags, d) ==
    /\ out' = [cmd |-> "edit", identifier |-> identifier,
               resolved |-> resolved, res |-> found,
               newContent |-> newContent, newTags |-> newTags]
    /\ IF found.kind = "note"
       THEN /\ now + d <= MaxNow
            /\ notesDir' = EnsureNotesDir(notesDir)
            /\ files' = SaveNote(files, Edited(found.note, newContent, newTags, now),
                                 now + d)
            /\ now' = now + d
       ELSE UNCHANGED <<files, notesDir, now>>

\* memo edit <note-id|number>: the clock may advance by d before the save
HandleEdit ==
    /\ out = Idle
    /\ \E identifier \in Identifiers, newContent \in ContentInputs,
          newTags \in TagInputs, d \in 0..1 :
          EditFound(identifier, resolveNoteID(identifier, currentListing),
                    Found(files, resolveNoteID(identifier, currentListing)),
                    newContent, newTags, d)
    /\ UNCHANGED <<currentListing, lastListed>>

\* ui.ConfirmAction taking every answer that begins with y for a yes
ConfirmAction_Prefix(response) == HasPrefix(ToLower(response), <<"y">>)

\* ui.ConfirmAction
ConfirmAction(response) == ToLower(response) \in {<<"y">>, <<"y", "e", "s">>}

\* DeleteNote reporting success and leaving the file in place
DeleteNote_Keep(fs, noteID) == fs

\* FileStorage.DeleteNote
DeleteNote(fs, noteID) ==
    IF GenerateNoteFilePath(noteID) \notin DOMAIN fs THEN fs
    ELSE Remove(fs, GenerateNoteFilePath(noteID))

\* the end of HandleDelete: the note that was found is deleted on a yes
DeleteFound(identifier, resolved, found, response, confirmed) ==
    /\ out' = [cmd |-> "delete", identifier |-> identifier,
               resolved |-> resolved, res |-> found,
               deleted |-> (found.kind = "note" /\ confirmed),
               response |-> response]
    /\ files' = IF found.kind = "note" /\ confirmed
                THEN DeleteNote(files, resolved.id) ELSE files

\* memo delete <note-id|number>
HandleDelete ==
    /\ out = Idle
    /\ \E identifier \in Identifiers, response \in Answers :
          DeleteFound(identifier, resolveNoteID(identifier, currentListing),
                      Found(files, resolveNoteID(identifier, currentListing)),
                      response, ConfirmAction(response))
    /\ UNCHANGED <<notesDir, now, currentListing, lastListed>>

\* memo search <query>
HandleSearch ==
    /\ out = Idle
    /\ \E query \in Queries :
          out' = [cmd |-> "search", query |-> query, res |-> SearchNotes(files, query)]
    /\ notesDir' = EnsureNotesDir(notesDir)
    /\ UNCHANGED <<files, now, currentListing, lastListed>>

\* len(strings.Fields(s)): the runs of symbols that are not white space
RECURSIVE CountFields(_, _)
CountFields(s, inField) ==
    IF s = <<>> THEN 0
    ELSE IF Head(s) \in WhiteSpace THEN CountFields(Tail(s), FALSE)
    ELSE (IF inField THEN 0 ELSE 1) + CountFields(Tail(s), TRUE)

\* tagCount[tag] = 1: a tag counted once however often it occurs
Increment_Once(tagCount, tag) ==
    [x \in DOMAIN tagCount \cup {tag} |-> IF x = tag THEN 1 ELSE tagCount[x]]

\* tagCount[tag]++ on a Go map, where a missing key reads as 0
Increment(tagCount, tag) ==
    [x \in DOMAIN tagCount \cup {tag} |->
        IF x = tag THEN (IF tag \in DOMAIN tagCount THEN tagCount[tag] + 1 ELSE 1)
        ELSE tagCount[x]]

\* the tags loop of DisplayStats
RECURSIVE CountTags(_, _)
CountTags(tagCount, tags) ==
    IF tags = <<>> THEN tagCount
    ELSE CountTags(Increment(tagCount, Head(tags)), Tail(tags))

\* the body of the loop of DisplayStats for the note n at index i (from 0)
StatsNote(acc, n, i) ==
    [totalWords |-> acc.totalWords + CountFields(n.Content, FALSE),
     oldestNote |-> IF i = 0 THEN n
                    ELSE IF n.Metadata.Created < acc.oldestNote.Metadata.Created THEN n
                    ELSE acc.oldestNote,
     newestNote |-> IF i = 0 THEN n
                    ELSE IF n.Metadata.Created > acc.newestNote.Metadata.Created THEN n
                    ELSE acc.newestNote,
     tagCount   |-> CountTags(acc.tagCount, n.Metadata.Tags)]

RECURSIVE StatsLoop(_, _, _)
StatsLoop(acc, notes, i) ==
    IF i = Len(notes) THEN acc
    ELSE StatsLoop(StatsNote(acc, notes[i + 1], i), notes, i + 1)

\* fmt.Printf("%.1f", float64(totalWords)/float64(len(notes))): the quotient
\* in tenths, rounded to the nearest; with at most three notes no quotient
\* lies halfway between two tenths
FormatAverage(totalWords, count) == (20 * totalWords + count) \div (2 * count)

\* what DisplayStats prints after its loop
StatsReport(notes, acc) ==
    [kind |-> "stats",
     total |-> Len(notes),
     words |-> acc.totalWords,
     averageTenths |-> FormatAverage(acc.totalWords, Len(notes)),
     oldest |-> acc.oldestNote.FilePath,
     newest |-> acc.newestNote.FilePath,
     tags |-> acc.tagCount]

NoNotesFound == [kind |-> "empty"]

\* DisplayStats printing totals of 0 and an average of 0 for no notes
DisplayStats_Zeroes(notes) ==
    IF Len(notes) = 0
    THEN [kind |-> "stats", total |-> 0, words |-> 0, averageTenths |-> 0,
          oldest |-> 0, newest |-> 0, tags |-> <<>>]
    ELSE StatsReport(notes,
                     StatsLoop([totalWords |-> 0, oldestNote |-> 0, newestNote |-> 0,
                                tagCount |-> <<>>], notes, 0))

\* ui.DisplayStats: what it prints for the notes
DisplayStats(notes) ==
    IF Len(notes) = 0 THEN NoNotesFound
    ELSE StatsReport(notes,
                     StatsLoop([totalWords |-> 0, oldestNote |-> 0, newestNote |-> 0,
                                tagCount |-> <<>>], notes, 0))

\* the end of HandleStats: the notes GetAllNotes returned are displayed
StatsOf(all) == IF all.kind = "panic" THEN Panicked ELSE DisplayStats(all.notes)

\* memo stats
HandleStats ==
    /\ out = Idle
    /\ out' = [cmd |-> "stats", notes |-> GetAllNotes(files),
               res |-> StatsOf(GetAllNotes(files))]
    /\ notesDir' = EnsureNotesDir(notesDir)
    /\ UNCHANGED <<files, now, currentListing, lastListed>>

\* App.Run returns and the process ends, its package variables with it
Exit ==
    /\ out # Idle
    /\ out' = Idle
    /\ currentListing' = NoListing
    /\ UNCHANGED <<files, notesDir, now, lastListed>>

Next ==
    \/ Tick
    \/ ExternalWrite
    \/ HandleCreate
    \/ HandleList
    \/ HandleRead
    \/ HandleEdit
    \/ HandleDelete
    \/ HandleSearch
    \/ HandleStats
    \/ Exit

Spec == Init /\ [][Next]_vars

-----------------------------------------------------------------------------
(* The queries on their own: search and list over a directory that holds   *)
(* notes memo saved, with several titles, bodies and tag lists, and files  *)
(* other programs wrote.                                                    *)

QueryTitles == { <<"w">>, <<"W", "s">> }
QueryContents == { <<>>, <<"s">> }
QueryTagLists ==
    { <<>>,
      << <<"w", "s">> >>,
      << <<"W">>, <<"w", "s">> >>,
      << <<"w">>, <<"W">> >>,
      << <<"s">>, <<"S">> >> }

\* the texts of the files of the directory
QueryTexts ==
    {ToFileContent(New(title, content, tags, 1), 1) :
        title \in QueryTitles, content \in QueryContents, tags \in QueryTagLists}
    \cup GarbageTexts

NotePaths == {GenerateNoteFilePath(noteID) : noteID \in NoteIDs}

InitQuery ==
    /\ files \in UNION {[paths -> QueryTexts] : paths \in SUBSET NotePaths}
    /\ notesDir = TRUE
    /\ now = 1
    /\ currentListing = NoListing
    /\ lastListed = <<>>
    /\ out = Idle

NextQuery ==
    \/ HandleSearch
    \/ HandleList
    \/ Exit

SpecQuery == InitQuery /\ [][NextQuery]_vars

-----------------------------------------------------------------------------
(* The statistics on their own: memo stats over a directory of up to three *)
(* notes memo saved, with bodies of 0, 2 and 3 words.                       *)

StatsContents ==
    { <<>>,
      <<"s", Space, Space, "w">>,
      <<"w", Space, "s", NL, "w">> }
StatsTagLists ==
    { <<>>,
      << <<"w">> >>,
      << <<"w">>, <<"s">> >>,
      << <<"w">>, <<"w">> >> }

StatsTexts ==
    {ToFileContent(New(<<"w">>, content, tags, t), t) :
        content \in StatsContents, tags \in StatsTagLists, t \in 1..2}

StatsPaths == {GenerateNoteFilePath(<<NotePrefix>> \o Itoa(sec)) : sec \in 0..2}

InitStats ==
    /\ files \in UNION {[paths -> StatsTexts] : paths \in SUBSET StatsPaths}
    /\ notesDir = TRUE
    /\ now = 2
    /\ currentListing = NoListing
    /\ lastListed = <<>>
    /\ out = Idle

NextStats ==
    \/ HandleStats
    \/ Exit

SpecStats == InitStats /\ [][NextStats]_vars

-----------------------------------------------------------------------------
(* A save that is interrupted.  Note.Save hands the whole text to           *)
(* os.WriteFile, which opens the file at n.FilePath with O_TRUNC and writes *)
(* into it: a process that dies, or a disk that fills, partway leaves the   *)
(* first k symbols of the new text in the file.                             *)

\* os.WriteFile(path, text) interrupted after k symbols
WriteFileInterrupted(fs, path, text, k) == WriteFile(fs, path, SubSeq(text, 1, k))

\* the texts of the notes memo saved
SavedTexts == QueryTexts \ GarbageTexts

InitCrash ==
    /\ files \in UNION {[{path} -> SavedTexts] : path \in NotePaths}
    /\ notesDir = TRUE
    /\ now \in 1..MaxNow
    /\ currentListing = NoListing
    /\ lastListed = <<>>
    /\ out = Idle

\* the save of the note n, found at its path and edited, is interrupted
\* after k symbols of the text reached the file
Interrupted(found, n, text, k) ==
    /\ k < Len(text)
    /\ files' = WriteFileInterrupted(files, n.FilePath, text, k)
    /\ out' = [cmd |-> "interrupted", path |-> n.FilePath, k |-> k,
               old |-> found, new |-> ParseNote(text, n.FilePath)]

\* memo edit of the note at a path, interrupted within os.WriteFile
SaveInterrupted ==
    /\ out = Idle
    /\ \E path \in DOMAIN files, newContent \in ContentInputs, k \in 0..MaxWritten :
          Interrupted(ParseNote(files[path], path),
                      Edited(ParseNote(files[path], path).note, newContent, <<>>, now),
                      ToFileContent(Edited(ParseNote(files[path], path).note,
                                           newContent, <<>>, now), now),
                      k)
    /\ UNCHANGED <<notesDir, now, currentListing, lastListed>>

NextCrash == SaveInterrupted

SpecCrash == InitCrash /\ [][NextCrash]_vars

-----------------------------------------------------------------------------
(* Claims about the codec, checked under SpecCodec *)

\* the error classes of the design, by the messages of the code
MalformedFrontMatter(res) ==
    res.kind = "error" /\ res.err \in {ErrNoFrontMatter, ErrNoDelimiter}
InvalidMetadata(res) == res.kind = "error" /\ res.err = ErrYaml

\* c is s without its leading and trailing white space
IsTrimOf(c, s) ==
    /\ c = <<>> \/ (c[1] \notin WhiteSpace /\ c[Len(c)] \notin WhiteSpace)
    /\ \E i \in 1..(Len(s) + 1), j \in 0..Len(s) :
          /\ c = SubSeq(s, i, j)
          /\ \A k \in 1..Len(s) : (k < i \/ k > j) => s[k] \in WhiteSpace

\* all of a decoded note but its content and its Modified are those of n
SameButContent(m, n) ==
    /\ m.Metadata.Title = n.Metadata.Title
    /\ m.Metadata.Tags = n.Metadata.Tags
    /\ m.Metadata.Author = n.Metadata.Author
    /\ m.Metadata.Status = n.Metadata.Status
    /\ m.Metadata.Priority = n.Metadata.Priority
    /\ m.Metadata.Created = n.Metadata.Created

\* C1 as stated: decoding the encoding of a note with a non-empty title
\* gives back its title, tags, content, author, status, priority and created
C1_RoundTripExact ==
    (out.cmd = "roundtrip" /\ out.n.Metadata.Title # <<>>) =>
        /\ out.res.kind = "note"
        /\ SameButContent(out.res.note, out.n)
        /\ out.res.note.Content = out.n.Content

\* C1 amended: decoding the encoding of a note with a non-empty title gives
\* back its title, tags, author, status, priority and created, and its
\* content without the leading and trailing white space
C1_RoundTripTrimmed ==
    (out.cmd = "roundtrip" /\ out.n.Metadata.Title # <<>>) =>
        /\ out.res.kind = "note"
        /\ SameButContent(out.res.note, out.n)
        /\ IsTrimOf(out.res.note.Content, out.n.Content)

\* a note whose body holds a delimiter line and ends in a newline, and whose
\* tags need quoting, has gone through the codec
C1_Witness ==
    /\ out.cmd = "roundtrip"
    /\ out.n.Content = <<"w", NL>>
    /\ out.n.Metadata.Title = <<"w", NL, Dash, Dash, Dash, NL, "s">>
    /\ out.n.Metadata.Tags = << <<>>, <<Quote>> >>
    /\ out.res.kind = "note"
    /\ out.res.note.Content = <<"w">>

\* the text does not begin with "---" and a newline
Undelimited(text) ==
    \/ Len(text) < 4
    \/ \E i \in 1..3 : text[i] # Dash
    \/ text[4] # NL

AfterOpening(text) == SubSeq(text, 5, Len(text))

\* newline, "---", newline stands at position i of the text
ClosingAt(text, i) ==
    /\ i + 4 <= Len(text)
    /\ text[i] = NL /\ text[i + 4] = NL
    /\ \A k \in 1..3 : text[i + k] = Dash

HasClosing(text) == \E i \in 1..Len(text) : ClosingAt(text, i)

\* C3: a text that begins with the opening delimiter and has no newline,
\* "---", newline after it is rejected with MalformedFrontMatter
C3_RejectsUnclosed ==
    (/\ out.cmd = "decode"
     /\ ~Undelimited(out.input)
     /\ ~HasClosing(AfterOpening(out.input))) => MalformedFrontMatter(out.res)

\* the metadata block of a delimited text: up to the closing delimiter
MetadataBlock(text) ==
    LET rest == AfterOpening(text)
        close == CHOOSE i \in 1..Len(rest) :
                    ClosingAt(rest, i) /\ \A k \in 1..(i - 1) : ~ClosingAt(rest, k)
    IN  SubSeq(rest, 1, close)

HasKey(block, key) == \E i \in 1..Len(block) : block[i] = key

\* the value of the key in the block is not a timestamp
BadTimestamp(block, key) ==
    \E i \in 1..Len(block) :
        /\ block[i] = key
        /\ i < Len(block)
        /\ block[i + 1] \notin DigitChars \cup {NL}

\* C4: a delimited text whose metadata block lacks title, created or
\* modified, or holds an unparsable created or modified, is rejected with
\* InvalidMetadata
C4_RequiredKeys ==
    (/\ out.cmd = "decode"
     /\ ~Undelimited(out.input)
     /\ HasClosing(AfterOpening(out.input))
     /\ LET block == MetadataBlock(out.input)
        IN  \/ ~HasKey(block, TitleKey)
            \/ ~HasKey(block, CreatedKey)
            \/ ~HasKey(block, ModifiedKey)
            \/ BadTimestamp(block, CreatedKey)
            \/ BadTimestamp(block, ModifiedKey)) => InvalidMetadata(out.res)

-----------------------------------------------------------------------------
(* Claims about the commands, checked under Spec *)

\* the files of the directory that hold garbage, and those memo saved
GarbageFiles(fs) == {p \in DOMAIN fs : fs[p] \in GarbageTexts}
ValidFiles(fs) == DOMAIN fs \ GarbageFiles(fs)

\* C5: over a directory of N valid note files and M garbage files,
\* GetAllNotes returns N notes and M warnings and does not fail, whatever
\* the garbage is
C5_LoadResilient ==
    (out.cmd = "list" /\ TagFilter(out.args) = <<>>) =>
        /\ out.res.kind = "ok"
        /\ Len(out.res.notes) = Cardinality(ValidFiles(files))
        /\ Len(out.res.warnings) = Cardinality(GarbageFiles(files))

\* C6: a successful create writes a file that no note of the store had
C6_CreateFreshID ==
    (out.cmd = "create" /\ out.ok) => GenerateNoteFilePath(out.id) \notin out.before

\* the command was given a number of the last listing that displayed notes
NumberOfListing(o) ==
    /\ o.cmd \in {"read", "edit", "delete"}
    /\ IsDigits(o.identifier)
    /\ Atoi(o.identifier) \in 1..Len(lastListed)

\* C7: read, edit and delete given k, 1 <= k <= N, after a listing that
\* displayed N notes, resolve k to the k-th note of that listing
C7_NumberResolves ==
    NumberOfListing(out) =>
        /\ out.resolved.kind = "id"
        /\ out.resolved.id = lastListed[Atoi(out.identifier)]

-----------------------------------------------------------------------------
(* Claims about search and the tag filter, checked under SpecQuery *)

\* C8: a search with the empty query returns no notes
C8_EmptyQueryNoNotes ==
    (out.cmd = "search" /\ out.query = <<>> /\ out.res.kind = "ok") =>
        out.res.notes = <<>>

\* q occurs in s, letters compared without their case
ContainsFold(s, q) ==
    \E i \in 0..(Len(s) - Len(q)) :
        \A k \in 1..Len(q) : ToLowerChar(s[i + k]) = ToLowerChar(q[k])

\* a and b are equal, letters compared without their case
EqualFold(a, b) ==
    /\ Len(a) = Len(b)
    /\ \A k \in 1..Len(a) : ToLowerChar(a[k]) = ToLowerChar(b[k])

\* the title, the body or a tag of the note contains q
Hit(n, q) ==
    \/ ContainsFold(n.Metadata.Title, q)
    \/ ContainsFold(n.Content, q)
    \/ \E i \in 1..Len(n.Metadata.Tags) : ContainsFold(n.Metadata.Tags[i], q)

\* a tag of the note equals t
Tagged(n, t) == \E i \in 1..Len(n.Metadata.Tags) : EqualFold(n.Metadata.Tags[i], t)

\* the notes of the directory: the files that decode to a note
StoredNotes(fs) ==
    {ParseNote(fs[p], p).note : p \in {q \in DOMAIN fs : ParseNote(fs[q], q).kind = "note"}}

\* the sequence holds each note of the set once, and nothing else
HoldsOnce(notes, S) ==
    /\ {notes[i] : i \in 1..Len(notes)} = S
    /\ Len(notes) = Cardinality(S)

\* C9: a search with a non-empty query q returns the notes whose title,
\* body or a tag contains q without regard to case, each of them once
C9_SearchExact ==
    (out.cmd = "search" /\ out.query # <<>> /\ out.res.kind = "ok") =>
        HoldsOnce(out.res.notes, {n \in StoredNotes(files) : Hit(n, out.query)})

\* a search for "S" over two notes returned, once, the one whose title, body
\* and tag all contain it, and not the other, both of whose tags contain "w"
C9_Witness ==
    /\ out.cmd = "search" /\ out.query = <<"S">>
    /\ out.res.kind = "ok"
    /\ Cardinality(StoredNotes(files)) = 2
    /\ Len(out.res.notes) = 1
    /\ out.res.notes[1].Metadata.Title = <<"W", "s">>
    /\ out.res.notes[1].Content = <<"s">>
    /\ out.res.notes[1].Metadata.Tags = << <<"W">>, <<"w", "s">> >>
    /\ \E n \in StoredNotes(files) : n.Metadata.Tags = << <<"w">>, <<"W">> >>

\* C10: the tag filter t returns the notes with a tag equal to t without
\* regard to case, each of them once, and the same notes for every spelling
\* of t; a tag that only contains t does not match
C10_FilterExact ==
    (out.cmd = "list" /\ TagFilter(out.args) # <<>> /\ out.res.kind = "ok") =>
        /\ HoldsOnce(out.res.notes,
                     {n \in StoredNotes(files) : Tagged(n, TagFilter(out.args))})
        /\ \A t \in Queries :
              EqualFold(t, TagFilter(out.args)) => FilterNotesByTag(files, t) = out.res

\* the filter "w" over two notes returned, once, the one tagged "w" and "W",
\* and not the one tagged only "ws"
C10_Witness ==
    /\ out.cmd = "list" /\ out.args = <<"--tag", <<"w">> >>
    /\ out.res.kind = "ok"
    /\ Cardinality(StoredNotes(files)) = 2
    /\ Len(out.res.notes) = 1
    /\ out.res.notes[1].Metadata.Tags = << <<"w">>, <<"W">> >>
    /\ \E n \in StoredNotes(files) : n.Metadata.Tags = << <<"w", "s">> >>

-----------------------------------------------------------------------------
(* Claims about the store over sequences of commands, checked under Spec *)

\* the command o deleted the note id
DeletedBy(o, id) == o.cmd = "delete" /\ o.deleted /\ o.resolved.id = id

\* the command o saved the note id
SavedBy(o, id) ==
    \/ o.cmd = "create" /\ o.ok /\ o.id = id
    \/ o.cmd = "edit" /\ o.res.kind = "note" /\ o.resolved.id = id

\* FindNoteByID(id) fails with "note not found"
NotFound(fs, id) == FindNoteByID(fs, id) = Failed(ErrNotFound)

\* the step is a write to the directory by another program
WrittenOutside == out = Idle /\ out' = Idle /\ files' # files

\* C11: a delete of id that succeeded leaves FindNoteByID(id) failing with
\* NotFound, and it goes on failing over every step that is not a save of id
\* (or a write of the file by another program); only a step that changes
\* the directory can change what FindNoteByID returns
C11_DeleteThenFind ==
    [][\A id \in NoteIDs :
          /\ (out = Idle /\ DeletedBy(out', id)) => NotFound(files', id)
          /\ (/\ files' # files
              /\ ~WrittenOutside
              /\ ~(out = Idle /\ SavedBy(out', id))
              /\ NotFound(files, id)) => NotFound(files', id)]_vars

\* a note that a listing displayed is read by its id in a later process and
\* is not found: it was deleted in between
C11_Witness ==
    /\ out.cmd = "read"
    /\ out.res = Failed(ErrNotFound)
    /\ \E k \in 1..Len(lastListed) : lastListed[k] = out.resolved.id

\* C12: after a save over a valid note file was interrupted, the file
\* decodes to the previous note or to the new note
C12_SaveAtomic ==
    out.cmd = "interrupted" =>
        ParseNote(files[out.path], out.path) \in {out.old, out.new}

-----------------------------------------------------------------------------
(* Claims about the encoder, checked under SpecCodec *)

\* C13: the text of a note always holds the keys title, created, modified
\* and tags, the tags key also when the note has no tags, and the keys
\* author, status and priority when and only when the field holds something
C13_TagsNeverOmitted ==
    out.cmd = "roundtrip" =>
        /\ HasKey(ToFileContent(out.n, out.t), TitleKey)
        /\ HasKey(ToFileContent(out.n, out.t), CreatedKey)
        /\ HasKey(ToFileContent(out.n, out.t), ModifiedKey)
        /\ HasKey(ToFileContent(out.n, out.t), TagsKey)
        /\ HasKey(ToFileContent(out.n, out.t), AuthorKey) <=> out.n.Metadata.Author # <<>>
        /\ HasKey(ToFileContent(out.n, out.t), StatusKey) <=> out.n.Metadata.Status # <<>>
        /\ HasKey(ToFileContent(out.n, out.t), PriorityKey) <=> out.n.Metadata.Priority # 0

-----------------------------------------------------------------------------
(* Claims about the statistics, checked under SpecStats *)

\* the words of a text: the places where a run of non-white-space begins
WordCount(s) ==
    Cardinality({i \in 1..Len(s) :
                    s[i] \notin WhiteSpace /\ (i = 1 \/ s[i - 1] \in WhiteSpace)})

RECURSIVE TotalWords(_)
TotalWords(notes) ==
    IF notes = <<>> THEN 0
    ELSE WordCount(Head(notes).Content) + TotalWords(Tail(notes))

\* the places of the tag in the tag lists of the notes
Occurrences(notes, tag) ==
    UNION {{<<i, j>> : j \in {k \in 1..Len(notes[i].Metadata.Tags) :
                                notes[i].Metadata.Tags[k] = tag}} :
              i \in 1..Len(notes)}

TagsOf(notes) ==
    UNION {{notes[i].Metadata.Tags[j] : j \in 1..Len(notes[i].Metadata.Tags)} :
              i \in 1..Len(notes)}

\* the totals and the tag frequencies of the report are those of the notes
CountsRight(res, notes) ==
    /\ res.total = Len(notes)
    /\ res.words = TotalWords(notes)
    /\ DOMAIN res.tags = TagsOf(notes)
    /\ \A tag \in TagsOf(notes) : res.tags[tag] = Cardinality(Occurrences(notes, tag))

\* C14 as stated: the statistics of a non-empty collection report the number
\* of notes, the words of all bodies, for each tag its occurrences in all tag
\* lists, and total words / total notes as the average
C14_StatsExact ==
    (out.cmd = "stats" /\ out.notes.kind = "ok" /\ Len(out.notes.notes) > 0) =>
        /\ out.res.kind = "stats"
        /\ CountsRight(out.res, out.notes.notes)
        /\ out.res.averageTenths * out.res.total = 10 * out.res.words

\* C14 amended: the statistics of a non-empty collection report the number
\* of notes, the words of all bodies, for each tag its occurrences in all tag
\* lists, and as the average the tenth nearest to total words / total notes
C14_StatsRounded ==
    (out.cmd = "stats" /\ out.notes.kind = "ok" /\ Len(out.notes.notes) > 0) =>
        /\ out.res.kind = "stats"
        /\ CountsRight(out.res, out.notes.notes)
        /\ 2 * (out.res.averageTenths * out.res.total - 10 * out.res.words)
              <= out.res.total
        /\ 2 * (10 * out.res.words - out.res.averageTenths * out.res.total)
              <= out.res.total

\* the statistics of three notes with bodies of 3, 2 and 0 words and the
\* tags [w], [w, s] and []: 3 notes, 5 words, 1.7 on average, w: 2, s: 1
C14_Witness ==
    /\ out.cmd = "stats" /\ out.res.kind = "stats"
    /\ Len(out.notes.notes) = 3
    /\ out.notes.notes[1].Content = <<"w", Space, "s", NL, "w">>
    /\ out.notes.notes[1].Metadata.Tags = << <<"w">> >>
    /\ out.notes.notes[2].Content = <<"s", Space, Space, "w">>
    /\ out.notes.notes[2].Metadata.Tags = << <<"w">>, <<"s">> >>
    /\ out.notes.notes[3].Content = <<>>
    /\ out.notes.notes[3].Metadata.Tags = <<>>
    /\ out.res.total = 3 /\ out.res.words = 5 /\ out.res.averageTenths = 17
    /\ out.res.tags[<<"w">>] = 2 /\ out.res.tags[<<"s">>] = 1

-----------------------------------------------------------------------------
(* Claims about the timestamps *)

\* C16: every note ParseNote returns, from a file of any origin or from the
\* text of a note just encoded, has modified >= created
C16_ModifiedNotBeforeCreated ==
    (out.cmd \in {"decode", "roundtrip"} /\ out.res.kind = "note") =>
        out.res.note.Metadata.Modified >= out.res.note.Metadata.Created

\* the edit found its note and saved it
EditSaved(o) == o.cmd = "edit" /\ o.res.kind = "note"

\* C17: the note an edit saved is in its file with the created timestamp it
\* had in the file before the edit, whatever was typed and whenever it was
\* saved
C17_CreatedImmutable ==
    EditSaved(out) =>
        /\ FindNoteByID(files, out.resolved.id).kind = "note"
        /\ FindNoteByID(files, out.resolved.id).note.Metadata.Created
              = out.res.note.Metadata.Created

\* a note was edited after the tick of its creation: its body is new, its
\* modified is the time of the edit, its created is the old one
C17_Witness ==
    /\ EditSaved(out)
    /\ out.res.note.Metadata.Created < now
    /\ FindNoteByID(files, out.resolved.id).note.Content # out.res.note.Content
    /\ FindNoteByID(files, out.resolved.id).note.Metadata.Modified = now
    /\ FindNoteByID(files, out.resolved.id).note.Metadata.Created < now

\* C18: the file a create or an edit saved holds as modified the time of
\* the save, which is not before the modified the note had, also when the
\* edit changed neither content nor tags
C18_SaveStampsModified ==
    /\ (out.cmd = "create" /\ out.ok) =>
          /\ FindNoteByID(files, out.id).kind = "note"
          /\ FindNoteByID(files, out.id).note.Metadata.Modified = now
    /\ EditSaved(out) =>
          /\ FindNoteByID(files, out.resolved.id).kind = "note"
          /\ FindNoteByID(files, out.resolved.id).note.Metadata.Modified = now
          /\ now >= out.res.note.Metadata.Modified

\* an edit that changed neither content nor tags saved the note at a later
\* tick: the file holds the new modified
C18_Witness ==
    /\ EditSaved(out)
    /\ FindNoteByID(files, out.resolved.id).note.Content = out.res.note.Content
    /\ FindNoteByID(files, out.resolved.id).note.Metadata.Tags = out.res.note.Metadata.Tags
    /\ out.res.note.Metadata.Modified < now
    /\ FindNoteByID(files, out.resolved.id).note.Metadata.Modified = now

-----------------------------------------------------------------------------
(* Claims about what the commands leave alone, checked under Spec *)

\* the command is a query: a search, a listing (filtered or not) or stats
Query(o) == o.cmd \in {"search", "list", "stats"}

\* C19: a query creates, writes and removes nothing: the notes directory and
\* the note files are after it what they were before
C19_QueriesChangeNothing ==
    [][(out = Idle /\ Query(out')) => (files' = files /\ notesDir' = notesDir)]_vars

\* the decode errors of ParseNote
DecodeError(res) ==
    res.kind = "error" /\ res.err \in {ErrNoFrontMatter, ErrNoDelimiter, ErrYaml}

\* what FindNoteByID owes for the file at the path of the id: NotFound
\* without a file, the decode error for a garbage file, the note otherwise
FindContract(fs, path, res) ==
    /\ path \notin DOMAIN fs => res = Failed(ErrNotFound)
    /\ (path \in DOMAIN fs /\ fs[path] \in GarbageTexts) => DecodeError(res)
    /\ (path \in DOMAIN fs /\ fs[path] \notin GarbageTexts) => res.kind = "note"

\* C20: a read by id fails with NotFound when the id has no file, returns
\* the note when the file decodes, fails with the decode error when the file
\* is garbage, and leaves the store as it was
C20_FindById ==
    [][(out = Idle /\ out'.cmd = "read" /\ out'.resolved.kind = "id") =>
          /\ FindContract(files, GenerateNoteFilePath(out'.resolved.id), out'.res)
          /\ files' = files /\ notesDir' = notesDir]_vars

-----------------------------------------------------------------------------
(* Claims about delete and edit, checked under Spec *)

\* the directory fs without the file at path, every other file as it was
Without(fs, path, after) ==
    /\ DOMAIN after = DOMAIN fs \ {path}
    /\ \A q \in DOMAIN after : after[q] = fs[q]

C22_EditKeepsPath ==
    [][(out = Idle /\ out'.cmd = "edit") =>
          /\ DOMAIN files' = DOMAIN files
          /\ out'.res.kind # "note" => files' = files
          /\ out'.res.kind = "note" =>
                /\ out'.res.note.FilePath = GenerateNoteFilePath(out'.resolved.id)
                /\ \A q \in DOMAIN files \ {GenerateNoteFilePath(out'.resolved.id)} :
                      files'[q] = files[q]]_vars

\* the second of two notes was edited: both files are there, and the file
\* of the edited note holds the new body under its old path
C22_Witness ==
    /\ EditSaved(out)
    /\ Cardinality(DOMAIN files) = 2
    /\ out.resolved.id = <<"note_", "1">>
    /\ out.res.note.Content = <<>>
    /\ FindNoteByID(files, out.resolved.id).note.Content = <<"s">>
    /\ FindNoteByID(files, out.resolved.id).note.FilePath = <<"note_", "1", ".note">>

-----------------------------------------------------------------------------
(* Claims about the order of the results, checked under SpecQuery *)

\* sub is a subsequence of all: its notes are notes of all, taken at places
\* that go up strictly
IsSubsequence(sub, all) ==
    \E place \in [1..Len(sub) -> 1..Len(all)] :
        /\ \A i \in 1..Len(sub) : all[place[i]] = sub[i]
        /\ \A i \in 1..Len(sub), j \in 1..Len(sub) : i < j => place[i] < place[j]

\* the command is a search or a listing with a tag filter, and it returned
Selection(o) ==
    /\ \/ o.cmd = "search"
       \/ o.cmd = "list" /\ TagFilter(o.args) # <<>>
    /\ o.res.kind = "ok"

\* C23: the notes a search or a tag filter returns are a subsequence of the
\* notes GetAllNotes loads, in its order: none out of place, none twice
C23_ResultsInLoadOrder ==
    Selection(out) => IsSubsequence(out.res.notes, GetAllNotes(files).notes)

\* a search returned both notes of the directory, the first file first
C23_Witness ==
    /\ out.cmd = "search" /\ out.res.kind = "ok"
    /\ Len(out.res.notes) = 2
    /\ out.res.notes[1].FilePath = <<"note_", "0", ".note">>
    /\ out.res.notes[2].FilePath = <<"note_", "1", ".note">>
    /\ out.res.notes[1].Metadata.Tags # out.res.notes[2].Metadata.Tags

-----------------------------------------------------------------------------
(* Edits on their own: memo edit over a directory of up to two notes that   *)
(* hold every field of the metadata                                         *)

EditMetadata ==
    {[ZeroMetadata EXCEPT !.Title = <<"w">>, !.Created = 1, !.Modified = 1,
                          !.Tags = tags, !.Author = by, !.Status = by,
                          !.Priority = Len(by)] :
        tags \in {<<>>, << <<"w">> >>}, by \in {<<>>, <<"s">>}}

EditContents == {<<>>, <<"w", NL, Dash, Dash, Dash, NL, "s">>}

\* the files of notes with these fields, and a file of another program
\* without a title and with a key of its own
EditTexts ==
    {ToFileContent([Metadata |-> md, Content |-> content, FilePath |-> 0], 1) :
        md \in EditMetadata, content \in EditContents}
    \cup {OpenDelimiter \o <<CreatedKey, "1", NL, OtherKey, "w", NL>>
            \o OpenDelimiter \o <<NL, "w">>}

EditPaths == {GenerateNoteFilePath(<<NotePrefix>> \o Itoa(sec)) : sec \in 0..1}

InitEdit ==
    /\ files \in UNION {[paths -> EditTexts] : paths \in SUBSET EditPaths}
    /\ notesDir = TRUE
    /\ now = 2
    /\ currentListing = NoListing
    /\ lastListed = <<>>
    /\ out = Idle

NextEdit ==
    \/ HandleEdit
    \/ Exit

SpecEdit == InitEdit /\ [][NextEdit]_vars

-----------------------------------------------------------------------------
(* Deletes on their own: both delete commands over a directory of up to    *)
(* two files, with every kind of answer to the confirmation prompt         *)

ErrIDRequired == "note-id or number required"

\* what may be typed at the confirmation prompt
ConfirmAnswers ==
    { <<>>, <<"y">>, <<"Y">>, <<"n">>, <<"y", "e">>, <<"y", "e", "s">>,
      <<"Y", "e", "S">>, <<"Y", "E", "S">>, <<Space, "y">>, <<"y", "e", "s", "s">> }

DeleteArgs == {<<>>} \cup {<<identifier>> : identifier \in Identifiers}

\* DeleteCommand.Execute: memo delete [<note-id|number>]
DeleteExecute ==
    /\ out = Idle
    /\ \E args \in DeleteArgs, response \in ConfirmAnswers :
          IF Len(args) < 1
          THEN /\ out' = [cmd |-> "delete", identifier |-> <<>>,
                          resolved |-> Failed(ErrIDRequired),
                          res |-> Failed(ErrIDRequired),
                          deleted |-> FALSE, response |-> response]
               /\ files' = files
          ELSE DeleteFound(args[1], resolveNoteID(args[1], currentListing),
                           Found(files, resolveNoteID(args[1], currentListing)),
                           response, ConfirmAction(response))
    /\ UNCHANGED <<notesDir, now, currentListing, lastListed>>

\* the file of a note, and two files of another program
DeleteTexts ==
    {ToFileContent(New(<<"w">>, <<"s">>, <<>>, 1), 1), <<"w">>,
     OpenDelimiter \o OpenDelimiter \o <<"w">>}

InitDelete ==
    /\ files \in UNION {[paths -> DeleteTexts] : paths \in SUBSET EditPaths}
    /\ notesDir = TRUE
    /\ now = 1
    /\ currentListing = NoListing
    /\ lastListed = <<>>
    /\ out = Idle

NextDelete ==
    \/ HandleDelete
    \/ DeleteExecute
    \/ Exit

SpecDelete == InitDelete /\ [][NextDelete]_vars

-----------------------------------------------------------------------------
(* resolveNoteID on its own, over the listings of storages of every       *)
(* directory and extension                                                 *)

DefaultNotesDir == <<".memo-notes">>

NewFileStorage == [notesDir |-> DefaultNotesDir, noteExtension |-> <<DefaultNoteExtension>>]

NewFileStorageWithConfig(dir, extension) == [notesDir |-> dir, noteExtension |-> extension]

NotesDirs == {DefaultNotesDir, <<"w">>, <<"w", Separator, "s">>}
NoteExtensions == {<<DefaultNoteExtension>>, <<".txt">>, <<>>}

Storages ==
    {NewFileStorage} \cup
    {NewFileStorageWithConfig(dir, extension) : dir \in NotesDirs, extension \in NoteExtensions}

\* filepath.Join(dir, name)
FilepathJoin(dir, name) == dir \o <<Separator>> \o name

\* GenerateNoteFilePath of a storage
PathFor(storage, noteID) == FilepathJoin(storage.notesDir, noteID \o storage.noteExtension)

\* the ids in the order of their files
SortIDs(ids) ==
    LET paths == SortPaths({GenerateNoteFilePath(id) : id \in ids})
    IN  [i \in 1..Len(paths) |-> TrimSuffix(paths[i], <<DefaultNoteExtension>>)]

\* the notes GetAllNotes of the storage loads when its directory holds
\* the notes of these ids: ParseNote gives each the path of its file
StoredListing(storage, ids) ==
    LET sorted == SortIDs(ids)
    IN  [i \in 1..Len(sorted) |->
            SetFilePath(New(<<"w">>, <<>>, <<>>, 1), PathFor(storage, sorted[i]))]

ResolveInputs == NoteIDs \cup {Itoa(k) : k \in 0..(Cardinality(NoteIDs) + 1)}

InitResolve ==
    /\ files = <<>>
    /\ notesDir = TRUE
    /\ now = 1
    /\ currentListing \in {StoredListing(storage, ids) :
                              storage \in Storages, ids \in SUBSET NoteIDs}
    /\ lastListed = <<>>
    /\ out = Idle

\* resolveNoteID of an identifier against the listing of a storage
Resolve ==
    /\ out = Idle
    /\ \E storage \in Storages, identifier \in ResolveInputs :
          /\ \E ids \in SUBSET NoteIDs : currentListing = StoredListing(storage, ids)
          /\ out' = [cmd |-> "resolve", storage |-> storage, identifier |-> identifier,
                     resolved |-> resolveNoteID(identifier, currentListing)]
    /\ UNCHANGED <<files, notesDir, now, currentListing, lastListed>>

NextResolve ==
    \/ Resolve
    \/ Exit

SpecResolve == InitResolve /\ [][NextResolve]_vars

-----------------------------------------------------------------------------
(* Claims about the tags in memory, checked under Spec *)

\* C24: the tags of the note a create builds, and of the note a read
\* decodes, are never the nil slice
C24_TagsNeverNil ==
    /\ (out.cmd = "create" /\ out.ok) => ~out.tags.nil
    /\ (out.cmd = "read" /\ out.res.kind = "note") => ~out.tags.nil

-----------------------------------------------------------------------------
(* Claims about decoding, checked under SpecCodec *)

\* C25: ParseNote returns a note or an error, and never panics, for every
\* text that begins with the opening delimiter line, the texts whose closing
\* delimiter line follows the opening one at once included
C25_ParseNoteTotal ==
    (out.cmd = "decode" /\ ~Undelimited(out.input)) => out.res.kind \in {"note", "error"}

-----------------------------------------------------------------------------
(* Claims about the two list commands, checked under SpecQuery *)

\* C26: App.HandleList and ListCommand.Execute do the same for every
\* argument list: the notes of FilterNotesByTag for --tag and a tag, all the
\* notes without arguments, and "tag value required" and no listing for
\* --tag alone
C26_ListsAgree ==
    out.cmd = "list" =>
        /\ out.res = ListExecute(files, out.args)
        /\ out.args = <<"--tag">> =>
              (out.res = Failed(ErrTagRequired) /\ currentListing = NoListing)

-----------------------------------------------------------------------------
(* Claims about resolveNoteID, checked under SpecResolve *)

\* C27: for the note at place k of the listing of any storage,
\* resolveNoteID of k gives an id whose path in that storage is the path
\* of the note; a number outside the listing, or any number without a
\* listing, gives an error
C27_ResolveRoundTrip ==
    (out.cmd = "resolve" /\ IsDigits(out.identifier)) =>
        IF Atoi(out.identifier) \in 1..Len(currentListing)
        THEN /\ out.resolved.kind = "id"
             /\ PathFor(out.storage, out.resolved.id) =
                    currentListing[Atoi(out.identifier)].FilePath
        ELSE out.resolved.kind = "error"

-----------------------------------------------------------------------------
(* Claims about what an edit leaves alone, checked under SpecEdit *)

\* the fields of the note before and after an edit with these inputs: only
\* what was typed, and modified, may differ
EditFrame(before, after, newContent, newTags) ==
    /\ after.FilePath = before.FilePath
    /\ after.Metadata.Title = before.Metadata.Title
    /\ after.Metadata.Created = before.Metadata.Created
    /\ after.Metadata.Author = before.Metadata.Author
    /\ after.Metadata.Status = before.Metadata.Status
    /\ after.Metadata.Priority = before.Metadata.Priority
    /\ newContent = <<>> => after.Content = before.Content
    /\ newTags = <<>> => after.Metadata.Tags = before.Metadata.Tags

-----------------------------------------------------------------------------
(* Claims about the confirmation of a delete, checked under SpecDelete *)

\* the answer is y or yes, in any case of its letters
SaysYes(response) ==
    \/ Len(response) = 1 /\ response[1] \in {"y", "Y"}
    \/ /\ Len(response) = 3
       /\ response[1] \in {"y", "Y"}
       /\ response[2] \in {"e", "E"}
       /\ response[3] \in {"s", "S"}

\* the identifier of the command names a file that decodes to a note
NamesNote(fs, o) == o.resolved.kind = "id" /\ FindNoteByID(fs, o.resolved.id).kind = "note"

\* C29: a delete changes the store only when the answer to the prompt is y
\* or yes in any case and the identifier names a note, and then it removes
\* the file of that note; after any other answer, or when the identifier
\* names no note, the store is as it was
C29_DeleteOnlyOnYes ==
    [][(out = Idle /\ out'.cmd = "delete") =>
          IF SaysYes(out'.response) /\ NamesNote(files, out')
          THEN Without(files, GenerateNoteFilePath(out'.resolved.id), files')
          ELSE files' = files]_vars

\* the second of two notes is gone after the answer YeS
C29_Witness ==
    /\ out.cmd = "delete"
    /\ out.response = <<"Y", "e", "S">>
    /\ out.deleted
    /\ out.resolved.id = <<"note_", "1">>
    /\ DOMAIN files = {<<"note_", "0", ".note">>}

-----------------------------------------------------------------------------
(* Claims about the tag filter and the search together, checked under      *)
(* SpecQuery                                                               *)

\* C30: the notes the filter of a non-empty tag t returns are notes the
\* search for t returns, in the same order: seen from a filter, and seen
\* from a search
C30_FilterWithinSearch ==
    /\ (out.cmd = "list" /\ TagFilter(out.args) # <<>> /\ out.res.kind = "ok") =>
          /\ SearchNotes(files, TagFilter(out.args)).kind = "ok"
          /\ IsSubsequence(out.res.notes, SearchNotes(files, TagFilter(out.args)).notes)
    /\ (out.cmd = "search" /\ out.query # <<>> /\ out.res.kind = "ok") =>
          /\ FilterNotesByTag(files, out.query).kind = "ok"
          /\ IsSubsequence(FilterNotesByTag(files, out.query).notes, out.res.notes)

\* the filter "S" returned the one note tagged with it, which the search for
\* "S" finds by its tags alone and returns second, after a note with "s" in
\* its body
C30_Witness ==
    /\ out.cmd = "list" /\ out.args = <<"--tag", <<"S">> >>
    /\ out.res.kind = "ok"
    /\ Len(out.res.notes) = 1
    /\ out.res.notes[1].Metadata.Title = <<"w">>
    /\ out.res.notes[1].Content = <<>>
    /\ out.res.notes[1].Metadata.Tags = << <<"s">>, <<"S">> >>
    /\ Len(SearchNotes(files, <<"S">>).notes) = 2
    /\ SearchNotes(files, <<"S">>).notes[2] = out.res.notes[1]

====
